---- MODULE Spec2Model ----
(***************************************************************************)
(* Model of src/src/index.ts: the two ranking entry points                 *)
(* smartFuzzySearch / smartFuzzySearchAll, their heuristic scorers and the *)
(* two edit-distance routines.                                             *)
(*                                                                         *)
(* Representation.                                                         *)
(*  - A string is a sequence of characters; a character is a TLA+ string   *)
(*    ("a", "A", " ", or the name of an ideograph such as "zhang").        *)
(*  - A number that the code computes by division is an exact rational     *)
(*    <<n, d>> in lowest terms with d > 0 (IEEE rounding is not modelled). *)
(*  - An item of the collection is represented by the value it has under   *)
(*    the selected field, already passed through String(); the empty       *)
(*    string stands for every falsy field value.  A returned item is its   *)
(*    1-based position in the collection, 0 standing for null.             *)
(***************************************************************************)
EXTENDS Integers, Sequences, FiniteSets, TLC

VARIABLES
    list,                  \* the collection: sequence of field values
    listIsArray,           \* list && Array.isArray(list)
    field,                 \* the field selector ("" is the unset selector)
    searchTerm,            \* the raw search term
    options,               \* SearchOptions: a record with a subset of the keys
    pc,                    \* "idle", "map", "done"
    fn,                    \* "none", "best", "all": the entry point running
    normalizedSearchTerm,
    searchWords,
    scoredItems,           \* the SearchResult records produced so far by list.map
    cache,                 \* the per-call Map<string, number>
    result,                \* value returned by the entry point
    str1, str2, maxDistance,   \* arguments of the edit-distance routines
    editPc,                \* "idle", "done"
    editResult,            \* value returned by calculateEditDistanceOptimized
    editReference,         \* value returned by calculateEditDistance
    lengthPc,              \* "idle", "done"
    lengthResult           \* value returned by calculateLengthSimilarity

searchVars == <<list, listIsArray, field, searchTerm, options, pc, fn,
                normalizedSearchTerm, searchWords, scoredItems, cache, result>>
editVars == <<str1, str2, maxDistance, editPc, editResult, editReference,
              lengthPc, lengthResult>>
vars == <<list, listIsArray, field, searchTerm, options, pc, fn,
          normalizedSearchTerm, searchWords, scoredItems, cache, result,
          str1, str2, maxDistance, editPc, editResult, editReference,
          lengthPc, lengthResult>>

(***************************************************************************)
(* Bounds                                                                  *)
(***************************************************************************)
MaxItems == 2          \* longest collection
MaxPairLen == 3        \* longest string of the single-candidate runs
MaxEditLen == 4        \* longest argument of the edit-distance routines
MaxEditBound == 3      \* largest maxDistance tried on the edit-distance routines

(***************************************************************************)
(* Exact rational arithmetic                                               *)
(***************************************************************************)
Abs(x) == IF x < 0 THEN -x ELSE x

RECURSIVE GCD(_, _)
GCD(a, b) == IF b = 0 THEN a ELSE GCD(b, a % b)

Q(n, d) ==
    LET g == GCD(Abs(n), Abs(d))
        s == IF d < 0 THEN -1 ELSE 1
    IN  <<(s * n) \div g, (s * d) \div g>>

Zero == <<0, 1>>
One == <<1, 1>>
QMul(a, b) == Q(a[1] * b[1], a[2] * b[2])
QAdd(a, b) == Q(a[1] * b[2] + b[1] * a[2], a[2] * b[2])
QLt(a, b) == a[1] * b[2] < b[1] * a[2]
QLe(a, b) == a[1] * b[2] <= b[1] * a[2]
QGt(a, b) == QLt(b, a)
QGe(a, b) == QLe(b, a)
\* Math.max(a, b)
QMax(a, b) == IF QGe(a, b) THEN a ELSE b

Min2(a, b) == IF a <= b THEN a ELSE b
Max2(a, b) == IF a >= b THEN a ELSE b
SetMin(S) == CHOOSE m \in S : \A x \in S : m <= x

(***************************************************************************)
(* String primitives                                                       *)
(***************************************************************************)
\* the simple (context-free) lowercase mapping of one character
LowerChar(c) ==
    CASE c = "A" -> "a"
      [] c = "B" -> "b"
      [] c = "C" -> "c"
      [] c = "ALPHA" -> "alpha"
      [] c = "SIGMA" -> "sigma"
      [] OTHER -> c

\* the characters with the Unicode property Cased
CasedLetters == {"a", "A", "b", "B", "c", "C",
                 "alpha", "ALPHA", "sigma", "SIGMA", "final-sigma"}

\* String.prototype.toLowerCase: the simple mapping of every character,
\* except that a capital sigma that ends a word (preceded by a cased letter
\* and not followed by one) becomes the final sigma (Unicode SpecialCasing,
\* condition Final_Sigma, which ECMAScript makes part of toLowerCase)
toLowerCase(s) ==
    [k \in 1..Len(s) |->
        IF /\ s[k] = "SIGMA"
           /\ k > 1 /\ s[k - 1] \in CasedLetters
           /\ (k = Len(s) \/ s[k + 1] \notin CasedLetters)
        THEN "final-sigma"
        ELSE LowerChar(s[k])]

startsWith(s, p) == Len(p) <= Len(s) /\ SubSeq(s, 1, Len(p)) = p

includes(s, p) ==
    \E k \in 0..(Len(s) - Len(p)) : SubSeq(s, k + 1, k + Len(p)) = p

\* position (0-based) of the first occurrence of c in the array s, or -1
indexOf(s, c) ==
    IF \E k \in 1..Len(s) : s[k] = c
    THEN SetMin({k \in 1..Len(s) : s[k] = c}) - 1
    ELSE -1

\* the characters matched by the class [\s,，。.]
Delimiters == {" ", ",", ".", "fullwidth-comma", "ideographic-period"}

RECURSIVE SplitFrom(_, _, _, _)
SplitFrom(s, k, word, acc) ==
    IF k > Len(s)
    THEN IF Len(word) > 0 THEN Append(acc, word) ELSE acc
    ELSE IF s[k] \in Delimiters
         THEN SplitFrom(s, k + 1, <<>>,
                        IF Len(word) > 0 THEN Append(acc, word) ELSE acc)
         ELSE SplitFrom(s, k + 1, Append(word, s[k]), acc)

\* s.split(/[\s,，。.]+/).filter((word) => word.length > 0)
splitWords(s) == SplitFrom(s, 1, <<>>, <<>>)

CharSet(s) == {s[k] : k \in 1..Len(s)}

(***************************************************************************)
(* Edit-distance routines                                                  *)
(***************************************************************************)
\* one pass of the inner loop: the row curr[0..len2] for row index i,
\* stored at positions 1..len2+1
RECURSIVE FillRow(_, _, _, _, _)
FillRow(prev, curr, i, s1, s2) ==
    LET j == Len(curr)
    IN  IF j > Len(s2) THEN curr
        ELSE FillRow(prev,
                     Append(curr,
                            IF s1[i] = s2[j]
                            THEN prev[j]
                            ELSE SetMin({prev[j] + 1, curr[j] + 1, prev[j + 1] + 1})),
                     i, s1, s2)

\* mutant: the early exit fires at minInRow >= maxDistance
RECURSIVE EditRows_eagerExit(_, _, _, _, _)
EditRows_eagerExit(prev, i, s1, s2, maxD) ==
    IF i > Len(s1) THEN prev[Len(s2) + 1]
    ELSE LET curr == FillRow(prev, <<i>>, i, s1, s2)
             minInRow == SetMin({curr[k] : k \in 1..Len(curr)})
         IN  IF minInRow >= maxD THEN maxD + 1
             ELSE EditRows_eagerExit(curr, i + 1, s1, s2, maxD)

RECURSIVE EditRows(_, _, _, _, _)
EditRows(prev, i, s1, s2, maxD) ==
    IF i > Len(s1) THEN prev[Len(s2) + 1]
    ELSE LET curr == FillRow(prev, <<i>>, i, s1, s2)
             minInRow == SetMin({curr[k] : k \in 1..Len(curr)})
         IN  IF minInRow > maxD THEN maxD + 1
             ELSE EditRows(curr, i + 1, s1, s2, maxD)

\* mutant: the length quick check returns maxDistance instead of maxDistance + 1
calculateEditDistanceOptimized_noSentinel(s1, s2, maxD) ==
    IF Abs(Len(s1) - Len(s2)) > maxD
    THEN maxD
    ELSE EditRows([j \in 1..(Len(s2) + 1) |-> j - 1], 1, s1, s2, maxD)

calculateEditDistanceOptimized(s1, s2, maxD) ==
    IF Abs(Len(s1) - Len(s2)) > maxD
    THEN maxD + 1
    ELSE EditRows([j \in 1..(Len(s2) + 1) |-> j - 1], 1, s1, s2, maxD)

calculateEditDistance(s1, s2) ==
    LET matrix[i \in 0..Len(s2), j \in 0..Len(s1)] ==
            IF i = 0 THEN j
            ELSE IF j = 0 THEN i
            ELSE IF s2[i] = s1[j] THEN matrix[i - 1, j - 1]
            ELSE SetMin({matrix[i - 1, j - 1] + 1,
                         matrix[i, j - 1] + 1,
                         matrix[i - 1, j] + 1})
    IN  matrix[Len(s2), Len(s1)]

(***************************************************************************)
(* Heuristic scorers                                                       *)
(***************************************************************************)
calculateCharSimilarityOptimized(s1, s2) ==
    IF Len(s1) = 0 \/ Len(s2) = 0 THEN Zero
    ELSE IF s1 = s2 THEN One
    ELSE LET chars1 == CharSet(s1)
             chars2 == CharSet(s2)
             intersection == Cardinality({c \in chars1 : c \in chars2})
             union == Cardinality(chars1) + Cardinality(chars2) - intersection
         IN  IF union > 0 THEN Q(intersection, union) ELSE Zero

calculateSubstringMatch(target, search) ==
    IF Len(target) = 0 \/ Len(search) = 0 THEN Zero
    ELSE IF includes(target, search) THEN Q(Len(search), Len(target))
    ELSE IF includes(search, target) THEN Q(Len(target), Len(search))
    ELSE Zero

\* length of the run of equal characters from position k on
RECURSIVE RunLength(_, _, _, _, _)
RunLength(a, offset, b, k, limit) ==
    IF k > limit THEN 0
    ELSE IF offset + k <= Len(a) /\ a[offset + k] = b[k]
         THEN 1 + RunLength(a, offset, b, k + 1, limit)
         ELSE 0

calculateCommonPrefix(s1, s2) ==
    IF Len(s1) = 0 \/ Len(s2) = 0 THEN Zero
    ELSE LET minLength == Min2(Len(s1), Len(s2))
             commonLength == RunLength(s1, 0, s2, 1, minLength)
             maxLength == Max2(Len(s1), Len(s2))
         IN  IF commonLength = 0 THEN Zero ELSE Q(commonLength, maxLength)

calculateContinuousMatch(target, search) ==
    IF Len(target) = 0 \/ Len(search) = 0 THEN Zero
    ELSE LET runs == {RunLength(target, i, search, 1, Len(search)) :
                         i \in 0..(Len(target) - Len(search))}
             maxContinuousLength ==
                 IF runs = {} THEN 0
                 ELSE CHOOSE m \in runs : \A r \in runs : r <= m
         IN  IF maxContinuousLength = 0 THEN Zero
             ELSE LET continuousRatio == Q(maxContinuousLength, Len(search))
                      lengthRatio ==
                          Q(maxContinuousLength, Max2(Len(target), Len(search)))
                  IN  QAdd(QMul(continuousRatio, Q(7, 10)),
                           QMul(lengthRatio, Q(3, 10)))

calculateChineseWordMatch(target, search) ==
    IF Len(target) = 0 \/ Len(search) = 0 THEN Zero
    ELSE LET totalSearchChars == Len(search)
             matchCount ==
                 Cardinality({k \in 1..Len(search) : search[k] \in CharSet(target)})
         IN  IF matchCount = 0 THEN Zero
             ELSE LET matchRatio == Q(matchCount, totalSearchChars)
                      consecutiveMatches ==
                          Cardinality(
                            {k \in 1..Len(search) :
                               /\ indexOf(target, search[k]) # -1
                               /\ \/ k = 1
                                  \/ indexOf(target, search[k]) >
                                        indexOf(target, search[k - 1])})
                      orderBonus == Q(consecutiveMatches, totalSearchChars)
                  IN  QAdd(QMul(matchRatio, Q(8, 10)), QMul(orderBonus, Q(2, 10)))

calculateCharSimilarity(s1, s2) ==
    IF Len(s1) = 0 \/ Len(s2) = 0 THEN Zero
    ELSE LET chars1 == CharSet(s1)
             chars2 == CharSet(s2)
             intersection == chars1 \cap chars2
             union == chars1 \cup chars2
         IN  IF Cardinality(union) > 0
             THEN Q(Cardinality(intersection), Cardinality(union))
             ELSE Zero

calculateLengthSimilarity(s1, s2) ==
    IF Len(s1) = 0 \/ Len(s2) = 0 THEN Zero
    ELSE LET len1 == Len(s1)
             len2 == Len(s2)
         IN  IF len1 = 0 /\ len2 = 0 THEN One
             ELSE IF len1 = 0 \/ len2 = 0 THEN Zero
             ELSE Q(Min2(len1, len2), Max2(len1, len2))

\* searchWords.filter(sw => fieldWords.some(fw => fw.includes(sw) || sw.includes(fw))).length
countWordMatches(sWords, fWords) ==
    Cardinality({k \in 1..Len(sWords) :
                   \E m \in 1..Len(fWords) :
                       \/ includes(fWords[m], sWords[k])
                       \/ includes(sWords[k], fWords[m])})

(***************************************************************************)
(* Options and weights                                                     *)
(***************************************************************************)
\* mutant: a charSimilarity weight of 0.8 instead of 0.4
DEFAULT_WEIGHT_CONFIG_heavyChar ==
    [exactMatch |-> Q(10, 10), prefixMatch |-> Q(8, 10),
     containsMatch |-> Q(6, 10), charSimilarity |-> Q(8, 10),
     lengthSimilarity |-> Q(2, 10), wordBoundary |-> Q(7, 10),
     substringMatch |-> Q(9, 10), commonPrefix |-> Q(85, 100)]

DEFAULT_WEIGHT_CONFIG ==
    [exactMatch |-> Q(10, 10), prefixMatch |-> Q(8, 10),
     containsMatch |-> Q(6, 10), charSimilarity |-> Q(4, 10),
     lengthSimilarity |-> Q(2, 10), wordBoundary |-> Q(7, 10),
     substringMatch |-> Q(9, 10), commonPrefix |-> Q(85, 100)]

\* const { minScore = 0.3, ... } = options
OptMinScore(o) == IF "minScore" \in DOMAIN o THEN o.minScore ELSE Q(3, 10)
OptCaseSensitive(o) ==
    IF "caseSensitive" \in DOMAIN o THEN o.caseSensitive ELSE FALSE
OptUserWeightConfig(o) ==
    IF "weightConfig" \in DOMAIN o THEN o.weightConfig ELSE <<>>
OptEnableCache(o) == IF "enableCache" \in DOMAIN o THEN o.enableCache ELSE TRUE
OptMaxEditDistance(o) ==
    IF "maxEditDistance" \in DOMAIN o THEN o.maxEditDistance ELSE 10

\* { ...DEFAULT_WEIGHT_CONFIG, ...userWeightConfig }
mergeWeightConfig(user) ==
    [k \in DOMAIN DEFAULT_WEIGHT_CONFIG |->
        IF k \in DOMAIN user THEN user[k] ELSE DEFAULT_WEIGHT_CONFIG[k]]

normalize(s, caseSensitive) == IF caseSensitive THEN s ELSE toLowerCase(s)

ZeroDetails ==
    [exactMatch |-> FALSE, prefixMatch |-> FALSE, containsMatch |-> FALSE,
     charSimilarity |-> Zero, lengthSimilarity |-> Zero, editSimilarity |-> Zero]

(***************************************************************************)
(* smartFuzzySearch: the callback of list.map                              *)
(***************************************************************************)
\* mutant: the key leaves out the field value
cacheKey_termOnly(nfv, nst) == <<"char_">> \o <<"_">> \o nst

\* `char_${normalizedFieldValue}_${normalizedSearchTerm}`
cacheKey(nfv, nst) == <<"char_">> \o nfv \o <<"_">> \o nst

cacheHas(cch, key) == \E e \in cch : e[1] = key
cacheGet(cch, key) == (CHOOSE e \in cch : e[1] = key)[2]
cacheSet(cch, key, value) == {e \in cch : e[1] # key} \cup {<<key, value>>}

\* if (cond) maxScore = Math.max(maxScore, value)
raise(maxScore, cond, value) == IF cond THEN QMax(maxScore, value) ELSE maxScore

\* working score after heuristics 1..8 (lines 141-267), charSimilarity given
bestWorkingScore(nfv, nst, sWords, w, charSimilarity) ==
    LET fieldWords == splitWords(nfv)
        m2 == raise(Zero, startsWith(nfv, nst) \/ startsWith(nst, nfv),
                    w.prefixMatch)
        m3 == raise(m2, includes(nfv, nst) \/ includes(nst, nfv),
                    w.containsMatch)
        substringScore == calculateSubstringMatch(nfv, nst)
        m4 == raise(m3, QGt(substringScore, Zero),
                    QMul(substringScore, w.substringMatch))
        commonPrefixScore == calculateCommonPrefix(nfv, nst)
        m5 == raise(m4, QGt(commonPrefixScore, Zero),
                    QMul(commonPrefixScore, w.commonPrefix))
        searchWordMatches == countWordMatches(sWords, fieldWords)
        m6 == raise(m5, Len(sWords) > 0 /\ searchWordMatches > 0,
                    QMul(Q(searchWordMatches, Len(sWords)),
                         w.wordBoundary))
        m7 == QMax(m6, QMul(charSimilarity, w.charSimilarity))
        continuousMatchScore == calculateContinuousMatch(nfv, nst)
        m8 == raise(m7, QGt(continuousMatchScore, Zero),
                    QMul(QMul(continuousMatchScore, w.charSimilarity), Q(12, 10)))
        chineseWordMatchScore == calculateChineseWordMatch(nfv, nst)
        m9 == raise(m8, QGt(chineseWordMatchScore, Zero),
                    QMul(QMul(chineseWordMatchScore, w.charSimilarity), Q(15, 10)))
        lengthScore == QMul(calculateLengthSimilarity(nfv, nst), w.lengthSimilarity)
    IN  QMax(m9, lengthScore)

\* the exact-match branch (lines 146-160)
bestExactResult(w) ==
    [score |-> w.exactMatch,
     details |-> [exactMatch |-> TRUE, prefixMatch |-> TRUE, containsMatch |-> TRUE,
                  charSimilarity |-> One, lengthSimilarity |-> One,
                  editSimilarity |-> One]]

\* mutant: window of maxEditDistance + 2 instead of maxEditDistance * 2
bestLengthFilter_plusTwo(nfv, nst, maxEdit) ==
    Abs(Len(nfv) - Len(nst)) > maxEdit + 2

\* the length pre-filter (lines 122-139)
bestLengthFilter(nfv, nst, maxEdit) == Abs(Len(nfv) - Len(nst)) > maxEdit * 2

\* lines 270-290: the edit-distance fallback, taken when the working score
\* is below minScore; computed says whether editDistance <= maxEditDistance
NoEditFallback == [computed |-> FALSE, editScore |-> Zero, ratio |-> Zero]

\* mutant: the fallback weighs the edit similarity by 5 instead of 0.5
editFallback_timesFive(nfv, nst, w, maxEdit) ==
    LET editDistance == calculateEditDistanceOptimized(nfv, nst, maxEdit)
        maxLength == Max2(Len(nfv), Len(nst))
        editSimilarity ==
            IF maxLength > 0 THEN Q(maxLength - editDistance, maxLength) ELSE Zero
    IN  IF editDistance <= maxEdit
        THEN [computed |-> TRUE,
              editScore |-> QMul(QMul(editSimilarity, w.charSimilarity), Q(5, 1)),
              ratio |-> editSimilarity]
        ELSE NoEditFallback

editFallback(nfv, nst, w, maxEdit) ==
    LET editDistance == calculateEditDistanceOptimized(nfv, nst, maxEdit)
        maxLength == Max2(Len(nfv), Len(nst))
        editSimilarity ==
            IF maxLength > 0 THEN Q(maxLength - editDistance, maxLength) ELSE Zero
    IN  IF editDistance <= maxEdit
        THEN [computed |-> TRUE,
              editScore |-> QMul(QMul(editSimilarity, w.charSimilarity), Q(5, 10)),
              ratio |-> editSimilarity]
        ELSE NoEditFallback

\* lines 292-308: the SearchResult of a candidate that is not an exact match
bestResult(nfv, nst, working, charSimilarity, fb, cch) ==
    [score |-> raise(working, fb.computed, fb.editScore),
     details |->
       [exactMatch |-> nfv = nst,
        prefixMatch |-> startsWith(nfv, nst) \/ startsWith(nst, nfv),
        containsMatch |-> includes(nfv, nst) \/ includes(nst, nfv),
        charSimilarity |-> charSimilarity,
        lengthSimilarity |-> calculateLengthSimilarity(nfv, nst),
        editSimilarity |-> IF QGt(fb.editScore, Zero) THEN fb.ratio ELSE Zero],
     cache |-> cch]

\* lines 218-232: the character similarity, looked up or computed and stored
cachedCharSimilarity(nfv, nst, enableCache, cch) ==
    IF enableCache /\ cacheHas(cch, cacheKey(nfv, nst))
    THEN [value |-> cacheGet(cch, cacheKey(nfv, nst)), cache |-> cch]
    ELSE LET charSimilarity == calculateCharSimilarityOptimized(nfv, nst)
         IN  [value |-> charSimilarity,
              cache |-> IF enableCache
                        THEN cacheSet(cch, cacheKey(nfv, nst), charSimilarity)
                        ELSE cch]

\* lines 141-308: a candidate that passed the pre-filter and is not exact
scoreBestInexact(nfv, nst, sWords, w, minScore, maxEdit, cs) ==
    LET working == bestWorkingScore(nfv, nst, sWords, w, cs.value)
    IN  bestResult(nfv, nst, working, cs.value,
                   IF QLt(working, minScore)
                   THEN editFallback(nfv, nst, w, maxEdit) ELSE NoEditFallback,
                   cs.cache)

\* one application of the map callback (lines 102-309): the SearchResult of
\* the candidate (without its item) and the cache it leaves behind
scoreBestItem(fieldValue, nst, sWords, o, cch) ==
    LET w == mergeWeightConfig(OptUserWeightConfig(o))
        nfv == normalize(fieldValue, OptCaseSensitive(o))
    IN  IF Len(fieldValue) = 0
        THEN [score |-> Zero, details |-> ZeroDetails, cache |-> cch]
        ELSE IF bestLengthFilter(nfv, nst, OptMaxEditDistance(o))
        THEN [score |-> Zero, details |-> ZeroDetails, cache |-> cch]
        ELSE IF nfv = nst
        THEN [score |-> bestExactResult(w).score,
              details |-> bestExactResult(w).details, cache |-> cch]
        ELSE scoreBestInexact(nfv, nst, sWords, w, OptMinScore(o),
                              OptMaxEditDistance(o),
                              cachedCharSimilarity(nfv, nst, OptEnableCache(o), cch))

(***************************************************************************)
(* smartFuzzySearchAll: the callback of list.map                           *)
(***************************************************************************)
\* mutant: the exact-match check is missing
allMatchScore_noExact(nfv, nst, w) ==
    raise(raise(Zero, startsWith(nfv, nst) \/ startsWith(nst, nfv), w.prefixMatch),
          includes(nfv, nst) \/ includes(nst, nfv), w.containsMatch)

\* maxScore after the exact / prefix / contains checks (lines 664-689)
allMatchScore(nfv, nst, w) ==
    raise(raise(raise(Zero, nfv = nst, w.exactMatch),
                startsWith(nfv, nst) \/ startsWith(nst, nfv), w.prefixMatch),
          includes(nfv, nst) \/ includes(nst, nfv), w.containsMatch)

scoreAllItem(fieldValue, nst, sWords, o) ==
    LET w == mergeWeightConfig(OptUserWeightConfig(o))
        nfv == normalize(fieldValue, OptCaseSensitive(o))
    IN  IF Len(fieldValue) = 0
        THEN [score |-> Zero,
              details |-> [exactMatch |-> FALSE, prefixMatch |-> FALSE,
                           containsMatch |-> FALSE, charSimilarity |-> Zero,
                           lengthSimilarity |-> Zero, editSimilarity |-> Zero,
                           wordMatches |-> 0]]
        ELSE
          LET fieldWords == splitWords(nfv)
              searchWordMatches == countWordMatches(sWords, fieldWords)
              m4 == raise(allMatchScore(nfv, nst, w), searchWordMatches > 0,
                          QMul(Q(searchWordMatches, Len(sWords)),
                               w.wordBoundary))
              charSimilarity == calculateCharSimilarity(nfv, nst)
              m5 == QMax(m4, QMul(charSimilarity, w.charSimilarity))
              lengthSimilarity == calculateLengthSimilarity(nfv, nst)
              m6 == QMax(m5, QMul(lengthSimilarity, w.lengthSimilarity))
              editDistance == calculateEditDistance(nfv, nst)
              maxLength == Max2(Len(nfv), Len(nst))
              editSimilarity ==
                  IF maxLength > 0
                  THEN Q(maxLength - editDistance, maxLength) ELSE Zero
              editScore == QMul(QMul(editSimilarity, w.charSimilarity), Q(5, 10))
          IN  [score |-> QMax(m6, editScore),
               details |->
                 [exactMatch |-> nfv = nst,
                  prefixMatch |-> startsWith(nfv, nst) \/ startsWith(nst, nfv),
                  containsMatch |-> includes(nfv, nst) \/ includes(nst, nfv),
                  wordMatches |-> searchWordMatches,
                  charSimilarity |-> charSimilarity,
                  lengthSimilarity |-> lengthSimilarity,
                  editSimilarity |-> editSimilarity]]

(***************************************************************************)
(* Ranker                                                                  *)
(***************************************************************************)
\* mutant: strict comparison item.score > minScore
filterByScore_strict(items, minScore) ==
    SelectSeq(items, LAMBDA r : QGt(r.score, minScore))

\* items.filter((item) => item.score >= minScore)
filterByScore(items, minScore) == SelectSeq(items, LAMBDA r : QGe(r.score, minScore))

\* position at which Array.prototype.sort (stable, ES2019) with the
\* comparator (a, b) => b.score - a.score places x in a sorted prefix
\* mutant: comparator reversed, (a, b) => a.score - b.score
RECURSIVE insertSorted_ascending(_, _)
insertSorted_ascending(sorted, x) ==
    IF Len(sorted) = 0 THEN <<x>>
    ELSE IF QLe(sorted[Len(sorted)].score, x.score) THEN Append(sorted, x)
    ELSE Append(insertSorted_ascending(SubSeq(sorted, 1, Len(sorted) - 1), x),
                sorted[Len(sorted)])

RECURSIVE insertSorted(_, _)
insertSorted(sorted, x) ==
    IF Len(sorted) = 0 THEN <<x>>
    ELSE IF QGe(sorted[Len(sorted)].score, x.score) THEN Append(sorted, x)
    ELSE Append(insertSorted(SubSeq(sorted, 1, Len(sorted) - 1), x),
                sorted[Len(sorted)])

RECURSIVE sortByScore(_)
sortByScore(items) ==
    IF Len(items) = 0 THEN <<>>
    ELSE insertSorted(sortByScore(SubSeq(items, 1, Len(items) - 1)),
                      items[Len(items)])

(***************************************************************************)
(* Inputs                                                                  *)
(***************************************************************************)
EmptyString == <<>>
ab == <<"a", "b">>
Ab == <<"A", "b">>
AB == <<"A", "B">>
abc == <<"a", "b", "c">>
ba == <<"b", "a">>
ZhangSan == <<"zhang", "san">>
LiSi == <<"li", "si">>
BSpaceC == <<"b", " ", "c">>
AlphaSigma == <<"alpha", "sigma">>
ALPHASIGMA == <<"ALPHA", "SIGMA">>

FieldValues == {EmptyString, ab, Ab, abc, ba, BSpaceC, ZhangSan, LiSi}
SearchTerms == {EmptyString, <<"a">>, <<"zhang">>, ab, AB, BSpaceC}
Lists == UNION {[1..k -> FieldValues] : k \in 0..MaxItems}

\* a second family of inputs, in Greek script
GreekFieldValues == {AlphaSigma, ALPHASIGMA, ab}
GreekSearchTerms == {AlphaSigma, ALPHASIGMA}
GreekLists == UNION {[1..k -> GreekFieldValues] : k \in 1..MaxItems}

NoOptions == [k \in {} |-> 0]
UserWeights ==
    {[exactMatch |-> Q(5, 10)],
     [exactMatch |-> Q(5, 10), prefixMatch |-> Q(3, 10), containsMatch |-> Q(3, 10),
      wordBoundary |-> Q(3, 10), charSimilarity |-> Q(2, 10)]}
OptionSets ==
    {a @@ b @@ c : a \in {NoOptions, [minScore |-> Zero], [minScore |-> Q(9, 10)]},
                   b \in {NoOptions, [maxEditDistance |-> 0]},
                   c \in {NoOptions, [caseSensitive |-> TRUE]}}
    \cup {[weightConfig |-> u] @@ a : u \in UserWeights,
                                      a \in {NoOptions, [minScore |-> Zero]}}
    \cup {[enableCache |-> FALSE] @@ a : a \in {NoOptions, [minScore |-> Q(9, 10)]}}
    \cup {[maxEditDistance |-> -1]}

\* inputs of the single-candidate runs: every string over a small alphabet
PairAlphabet == {"a", "b", " "}
PairStrings == UNION {[1..k -> PairAlphabet] : k \in 0..MaxPairLen}
CharOnlyWeights ==
    [prefixMatch |-> Zero, containsMatch |-> Zero, charSimilarity |-> One,
     lengthSimilarity |-> Zero, wordBoundary |-> Zero, substringMatch |-> Zero,
     commonPrefix |-> Zero]
PairOptionSets ==
    {NoOptions, [minScore |-> One, maxEditDistance |-> 1],
     [minScore |-> Q(2, 1), weightConfig |-> CharOnlyWeights]}

EditAlphabet == {"a", "b"}
EditStrings == UNION {[1..k -> EditAlphabet] : k \in 0..MaxEditLen}

Null == 0

(***************************************************************************)
(* Initial states                                                          *)
(***************************************************************************)
EditIdle ==
    /\ str1 = <<>> /\ str2 = <<>> /\ maxDistance = 0
    /\ editPc = "idle" /\ editResult = 0 /\ editReference = 0
    /\ lengthPc = "idle" /\ lengthResult = Zero

SearchIdle ==
    /\ pc = "idle" /\ fn = "none"
    /\ normalizedSearchTerm = <<>> /\ searchWords = <<>>
    /\ scoredItems = <<>> /\ cache = {} /\ result = Null

Init ==
    /\ \/ /\ listIsArray = TRUE /\ field = "name"
          /\ list \in Lists
          /\ searchTerm \in SearchTerms
          /\ options \in OptionSets
       \/ /\ listIsArray = TRUE /\ field = "name"
          /\ list \in GreekLists
          /\ searchTerm \in GreekSearchTerms
          /\ options \in {NoOptions, [minScore |-> Q(9, 10)], [caseSensitive |-> TRUE]}
       \/ /\ \/ listIsArray = FALSE /\ field = "name" /\ list = <<>>
             \/ listIsArray = TRUE /\ field = "" /\ list = <<ab>>
          /\ searchTerm = ab
          /\ options = NoOptions
    /\ SearchIdle
    /\ EditIdle

InitPair ==
    /\ listIsArray = TRUE /\ field = "name"
    /\ searchTerm \in PairStrings
    /\ \E fv \in PairStrings : list = <<fv, searchTerm>>
    /\ options \in PairOptionSets
    /\ SearchIdle
    /\ EditIdle

InitEdit ==
    /\ str1 \in EditStrings /\ str2 \in EditStrings
    /\ maxDistance \in 0..MaxEditBound
    /\ editPc = "idle" /\ editResult = 0 /\ editReference = 0
    /\ lengthPc = "idle" /\ lengthResult = Zero
    /\ list = <<>> /\ listIsArray = TRUE /\ field = "name"
    /\ searchTerm = <<>> /\ options = NoOptions
    /\ SearchIdle

(***************************************************************************)
(* smartFuzzySearch                                                        *)
(***************************************************************************)
\* !list || !Array.isArray(list) || !field || !searchTerm
argumentsRejected(isArray, fld, term) == ~isArray \/ fld = "" \/ Len(term) = 0

\* mutant: gate on the empty term only
termTooShort_emptyOnly(nst) == Len(nst) < 1

\* normalizedSearchTerm.length < 2
termTooShort(nst) == Len(nst) < 2

\* lines 70-99: argument guard, option defaults, new cache, normalization of
\* the term, minimum-length gate
BestBegin ==
    /\ pc = "idle"
    /\ fn' = "best"
    /\ IF argumentsRejected(listIsArray, field, searchTerm)
       THEN /\ result' = Null /\ pc' = "done"
            /\ UNCHANGED <<normalizedSearchTerm, searchWords, scoredItems, cache>>
       ELSE LET nst == normalize(searchTerm, OptCaseSensitive(options))
            IN  /\ cache' = {}
                /\ normalizedSearchTerm' = nst
                /\ searchWords' = splitWords(nst)
                /\ scoredItems' = <<>>
                /\ IF termTooShort(nst)
                   THEN result' = Null /\ pc' = "done"
                   ELSE result' = result /\ pc' = "map"
    /\ UNCHANGED <<list, listIsArray, field, searchTerm, options>>
    /\ UNCHANGED editVars

\* lines 102-309: the map callback on the next candidate
BestMapItem ==
    /\ pc = "map" /\ fn = "best"
    /\ Len(scoredItems) < Len(list)
    /\ LET idx == Len(scoredItems) + 1
           r == scoreBestItem(list[idx], normalizedSearchTerm, searchWords,
                              options, cache)
       IN  /\ scoredItems' = Append(scoredItems,
                                    [item |-> idx, score |-> r.score,
                                     details |-> r.details])
           /\ cache' = r.cache
    /\ UNCHANGED <<list, listIsArray, field, searchTerm, options, pc, fn,
                   normalizedSearchTerm, searchWords, result>>
    /\ UNCHANGED editVars

\* mutant: returns the last survivor instead of the first
bestRank_lastSurvivor(items, minScore) ==
    LET filteredItems == sortByScore(filterByScore(items, minScore))
    IN  IF Len(filteredItems) > 0
        THEN filteredItems[Len(filteredItems)].item ELSE Null

\* lines 311-318: filter, sort, return the first survivor
bestRank(items, minScore) ==
    LET filteredItems == sortByScore(filterByScore(items, minScore))
    IN  IF Len(filteredItems) > 0 THEN filteredItems[1].item ELSE Null

BestReturn ==
    /\ pc = "map" /\ fn = "best"
    /\ Len(scoredItems) = Len(list)
    /\ result' = bestRank(scoredItems, OptMinScore(options))
    /\ pc' = "done"
    /\ UNCHANGED <<list, listIsArray, field, searchTerm, options, fn,
                   normalizedSearchTerm, searchWords, scoredItems, cache>>
    /\ UNCHANGED editVars

(***************************************************************************)
(* smartFuzzySearchAll                                                     *)
(***************************************************************************)
\* lines 621-638
AllBegin ==
    /\ pc = "idle"
    /\ fn' = "all"
    /\ IF argumentsRejected(listIsArray, field, searchTerm)
       THEN /\ result' = <<>> /\ pc' = "done"
            /\ UNCHANGED <<normalizedSearchTerm, searchWords, scoredItems>>
       ELSE LET nst == normalize(searchTerm, OptCaseSensitive(options))
            IN  /\ normalizedSearchTerm' = nst
                /\ searchWords' = splitWords(nst)
                /\ scoredItems' = <<>>
                /\ result' = result /\ pc' = "map"
    /\ UNCHANGED <<list, listIsArray, field, searchTerm, options, cache>>
    /\ UNCHANGED editVars

\* lines 640-756
AllMapItem ==
    /\ pc = "map" /\ fn = "all"
    /\ Len(scoredItems) < Len(list)
    /\ LET idx == Len(scoredItems) + 1
           r == scoreAllItem(list[idx], normalizedSearchTerm, searchWords, options)
       IN  scoredItems' = Append(scoredItems,
                                 [item |-> idx, score |-> r.score,
                                  details |-> r.details])
    /\ UNCHANGED <<list, listIsArray, field, searchTerm, options, pc, fn,
                   normalizedSearchTerm, searchWords, cache, result>>
    /\ UNCHANGED editVars

\* lines 758-762
allRank(items, minScore) ==
    LET sorted == sortByScore(filterByScore(items, minScore))
    IN  [k \in 1..Len(sorted) |-> sorted[k].item]

AllReturn ==
    /\ pc = "map" /\ fn = "all"
    /\ Len(scoredItems) = Len(list)
    /\ result' = allRank(scoredItems, OptMinScore(options))
    /\ pc' = "done"
    /\ UNCHANGED <<list, listIsArray, field, searchTerm, options, fn,
                   normalizedSearchTerm, searchWords, scoredItems, cache>>
    /\ UNCHANGED editVars

(***************************************************************************)
(* Edit-distance routines applied to their arguments                       *)
(***************************************************************************)
EditCall ==
    /\ editPc = "idle"
    /\ editResult' = calculateEditDistanceOptimized(str1, str2, maxDistance)
    /\ editReference' = calculateEditDistance(str1, str2)
    /\ editPc' = "done"
    /\ UNCHANGED <<str1, str2, maxDistance, lengthPc, lengthResult>>
    /\ UNCHANGED searchVars

\* one call of calculateLengthSimilarity(str1, str2)
LengthCall ==
    /\ lengthPc = "idle"
    /\ lengthResult' = calculateLengthSimilarity(str1, str2)
    /\ lengthPc' = "done"
    /\ UNCHANGED <<str1, str2, maxDistance, editPc, editResult, editReference>>
    /\ UNCHANGED searchVars

(***************************************************************************)
(* The entry points as functions of their arguments                        *)
(***************************************************************************)
RECURSIVE bestMap(_, _, _, _, _, _)
bestMap(l, nst, sWords, o, acc, cch) ==
    IF Len(acc) = Len(l) THEN acc
    ELSE LET idx == Len(acc) + 1
             r == scoreBestItem(l[idx], nst, sWords, o, cch)
         IN  bestMap(l, nst, sWords, o,
                     Append(acc, [item |-> idx, score |-> r.score,
                                  details |-> r.details]),
                     r.cache)

smartFuzzySearch(l, isArray, fld, term, o) ==
    IF argumentsRejected(isArray, fld, term)
    THEN [scoredItems |-> <<>>, result |-> Null]
    ELSE LET nst == normalize(term, OptCaseSensitive(o))
         IN  IF termTooShort(nst)
             THEN [scoredItems |-> <<>>, result |-> Null]
             ELSE LET items == bestMap(l, nst, splitWords(nst), o, <<>>, {})
                  IN  [scoredItems |-> items,
                       result |-> bestRank(items, OptMinScore(o))]

smartFuzzySearchAll(l, isArray, fld, term, o) ==
    IF argumentsRejected(isArray, fld, term)
    THEN [scoredItems |-> <<>>, result |-> <<>>]
    ELSE LET nst == normalize(term, OptCaseSensitive(o))
             items == [k \in 1..Len(l) |->
                          LET r == scoreAllItem(l[k], nst, splitWords(nst), o)
                          IN  [item |-> k, score |-> r.score, details |-> r.details]]
         IN  [scoredItems |-> items, result |-> allRank(items, OptMinScore(o))]

Next ==
    \/ BestBegin \/ BestMapItem \/ BestReturn
    \/ AllBegin \/ AllMapItem \/ AllReturn

Spec == Init /\ [][Next]_vars

NextPair == BestBegin \/ BestMapItem \/ BestReturn

SpecPair == InitPair /\ [][NextPair]_vars

NextEdit == EditCall

SpecEdit == InitEdit /\ [][NextEdit]_vars

NextLength == LengthCall

SpecLength == InitEdit /\ [][NextLength]_vars

(***************************************************************************)
(* Properties                                                              *)
(***************************************************************************)
minScoreOf == OptMinScore(options)
weightConfigOf == mergeWeightConfig(OptUserWeightConfig(options))
Accepted == ~argumentsRejected(listIsArray, field, searchTerm)
Candidates == 1..Len(scoredItems)
Clears(k) == QGe(scoredItems[k].score, minScoreOf)
BestDone == pc = "done" /\ fn = "best"
AllDone == pc = "done" /\ fn = "all"
Range(seq) == {seq[k] : k \in 1..Len(seq)}

\* C1: smartFuzzySearch on accepted arguments and a normalized term of at
\* least 2 characters returns null iff no candidate's score is >= minScore;
\* otherwise it returns an item of the collection whose score is >= minScore
\* and >= the score of every candidate.
C1_BestReturnsTopCandidate ==
    (BestDone /\ Accepted
       /\ Len(normalize(searchTerm, OptCaseSensitive(options))) >= 2) =>
        /\ Len(scoredItems) = Len(list)
        /\ \A k \in Candidates : scoredItems[k].item = k
        /\ (result = Null) <=> (\A k \in Candidates : ~Clears(k))
        /\ result # Null =>
              /\ result \in 1..Len(list)
              /\ Clears(result)
              /\ \A k \in Candidates :
                    QGe(scoredItems[result].score, scoredItems[k].score)

C1_Witness ==
    /\ BestDone /\ Accepted /\ Len(list) = 2
    /\ result = 2
    /\ Clears(1)
    /\ QLt(scoredItems[1].score, scoredItems[2].score)

C1_WitnessNull ==
    /\ BestDone /\ Accepted /\ Len(list) = 2 /\ Len(normalizedSearchTerm) >= 2
    /\ result = Null
    /\ \E k \in Candidates : QGt(scoredItems[k].score, Zero)

\* C2 as stated: in both entry points a candidate whose normalized field
\* value equals the normalized term scores exactly weightConfig.exactMatch
\* and has the three detail booleans true.
IsExactCandidate(k) ==
    /\ Len(list[k]) > 0
    /\ normalize(list[k], OptCaseSensitive(options)) = normalizedSearchTerm

DetailBooleansTrue(k) ==
    /\ scoredItems[k].details.exactMatch
    /\ scoredItems[k].details.prefixMatch
    /\ scoredItems[k].details.containsMatch

C2_Original ==
    \A k \in Candidates :
        IsExactCandidate(k) =>
            /\ scoredItems[k].score = weightConfigOf.exactMatch
            /\ DetailBooleansTrue(k)

\* C2 amended: smartFuzzySearch with maxEditDistance >= 0 scores such a
\* candidate exactly weightConfig.exactMatch; smartFuzzySearchAll scores it
\* at least weightConfig.exactMatch, and exactly that when none of the
\* prefixMatch, containsMatch, wordBoundary, charSimilarity and
\* lengthSimilarity weights exceeds exactMatch; the booleans are true in both.
AllWeightsBelowExact ==
    \A name \in {"prefixMatch", "containsMatch", "wordBoundary",
                 "charSimilarity", "lengthSimilarity"} :
        QLe(weightConfigOf[name], weightConfigOf.exactMatch)

C2_ExactMatchScore ==
    \A k \in Candidates :
        IsExactCandidate(k) =>
            /\ (fn = "best" /\ OptMaxEditDistance(options) >= 0) =>
                  /\ scoredItems[k].score = weightConfigOf.exactMatch
                  /\ DetailBooleansTrue(k)
            /\ fn = "all" =>
                  /\ QGe(scoredItems[k].score, weightConfigOf.exactMatch)
                  /\ AllWeightsBelowExact =>
                        scoredItems[k].score = weightConfigOf.exactMatch
                  /\ DetailBooleansTrue(k)

C2_Witness ==
    /\ \E k \in Candidates :
          /\ IsExactCandidate(k)
          /\ list[k] # searchTerm
          /\ fn = "all"
          /\ AllWeightsBelowExact
          /\ weightConfigOf.exactMatch = Q(5, 10)

C2_WitnessBest ==
    /\ \E k \in Candidates :
          /\ IsExactCandidate(k)
          /\ fn = "best"
          /\ weightConfigOf.exactMatch = Q(5, 10)
          /\ scoredItems[k].score = Q(5, 10)

\* C3: smartFuzzySearchAll returns exactly the items whose score is
\* >= minScore, each occurrence once; nothing when the arguments are rejected.
C3_AllThresholdFilter ==
    AllDone =>
        IF Accepted
        THEN /\ Len(scoredItems) = Len(list)
             /\ Range(result) = {k \in Candidates : Clears(k)}
             /\ Len(result) = Cardinality(Range(result))
        ELSE result = <<>>

C3_Witness ==
    /\ AllDone /\ Accepted /\ Len(list) = 2
    /\ Len(result) = 1
    /\ \E k \in Candidates : scoredItems[k].score = minScoreOf /\ result = <<k>>

\* C4: the sequence returned by smartFuzzySearchAll is sorted by
\* non-increasing score.
C4_AllSortedDescending ==
    (AllDone /\ Accepted) =>
        \A k \in 1..(Len(result) - 1) :
            QGe(scoredItems[result[k]].score, scoredItems[result[k + 1]].score)

C4_Witness ==
    /\ AllDone /\ Accepted
    /\ result = <<2, 1>>
    /\ QGt(scoredItems[2].score, scoredItems[1].score)

C5_WitnessAll ==
    /\ AllDone /\ Accepted
    /\ Len(searchTerm) = 1
    /\ Len(result) > 0

\* C6: the documented example: smartFuzzySearch on the collection
\* [{name:"张三"},{name:"李四"}], field name, the term "张" and default options
\* returns the item whose name is "张三".
C6_DocumentedExample ==
    (/\ BestDone /\ Accepted
     /\ list = <<ZhangSan, LiSi>>
     /\ searchTerm = <<"zhang">>
     /\ options = NoOptions) => result = 1

\* C7: with caseSensitive false, replacing the term and the field values by
\* strings that differ from them only in letter case gives the same
\* per-candidate scores and the same returned position(s), in both entry
\* points.
SwapCase(c) ==
    CASE c = "a" -> "A" [] c = "A" -> "a"
      [] c = "b" -> "B" [] c = "B" -> "b"
      [] c = "c" -> "C" [] c = "C" -> "c"
      [] c = "alpha" -> "ALPHA" [] c = "ALPHA" -> "alpha"
      [] c = "sigma" -> "SIGMA" [] c = "SIGMA" -> "sigma"
      [] OTHER -> c

DiffersOnlyInCase(s, t) ==
    /\ Len(s) = Len(t)
    /\ \A k \in 1..Len(s) : t[k] = s[k] \/ t[k] = SwapCase(s[k])

RECURSIVE ListCaseVariants(_)
ListCaseVariants(l) ==
    IF Len(l) = 0 THEN {<<>>}
    ELSE {Append(front, v) :
            front \in ListCaseVariants(SubSeq(l, 1, Len(l) - 1)),
            v \in {t \in FieldValues \cup GreekFieldValues :
                        DiffersOnlyInCase(l[Len(l)], t)}}

TermCaseVariants(term) ==
    {t \in SearchTerms \cup GreekSearchTerms : DiffersOnlyInCase(term, t)}

ScoresOf(items) == [k \in 1..Len(items) |-> items[k].score]

OutcomeOf(l, term) ==
    LET run == IF fn = "best"
               THEN smartFuzzySearch(l, listIsArray, field, term, options)
               ELSE smartFuzzySearchAll(l, listIsArray, field, term, options)
    IN  <<ScoresOf(run.scoredItems), run.result>>

C7_CaseInsensitiveOutcome ==
    (pc = "done" /\ ~OptCaseSensitive(options)) =>
        \A l \in ListCaseVariants(list), term \in TermCaseVariants(searchTerm) :
            OutcomeOf(l, term) = <<ScoresOf(scoredItems), result>>

\* the same statement restricted to strings without a capital sigma, on
\* which toLowerCase acts character by character
HasCapitalSigma(s) == \E k \in 1..Len(s) : s[k] = "SIGMA"

SimpleCaseOutcome ==
    (pc = "done" /\ ~OptCaseSensitive(options)) =>
        \A l \in ListCaseVariants(list), term \in TermCaseVariants(searchTerm) :
            (/\ ~HasCapitalSigma(term) /\ ~HasCapitalSigma(searchTerm)
             /\ \A k \in 1..Len(l) :
                   ~HasCapitalSigma(l[k]) /\ ~HasCapitalSigma(list[k])) =>
                OutcomeOf(l, term) = <<ScoresOf(scoredItems), result>>

SimpleCaseWitness ==
    /\ pc = "done" /\ fn = "best" /\ ~OptCaseSensitive(options)
    /\ Len(list) = 2 /\ list[1] = abc /\ list[2] = Ab
    /\ searchTerm = AB
    /\ result = 2
    /\ <<abc, ab>> \in ListCaseVariants(list)
    /\ ab \in TermCaseVariants(searchTerm)

\* C9: in smartFuzzySearch a candidate whose normalized field value length
\* differs from the normalized term length by more than 2 * maxEditDistance
\* scores 0 with the all-false/zero detail record, and with minScore > 0 it
\* is not the returned item.
OutsideLengthWindow(k) ==
    Abs(Len(normalize(list[k], OptCaseSensitive(options)))
          - Len(normalizedSearchTerm)) > 2 * OptMaxEditDistance(options)

C9_LengthPreFilter ==
    fn = "best" =>
        \A k \in Candidates :
            OutsideLengthWindow(k) =>
                /\ scoredItems[k].score = Zero
                /\ scoredItems[k].details = ZeroDetails
                /\ (pc = "done" /\ QGt(minScoreOf, Zero)) => result # k

C9_Witness ==
    /\ BestDone /\ QGt(minScoreOf, Zero)
    /\ OptMaxEditDistance(options) = 0
    /\ \E k \in Candidates :
          /\ OutsideLengthWindow(k)
          /\ startsWith(list[k], normalizedSearchTerm)
          /\ QGe(bestWorkingScore(list[k], normalizedSearchTerm, searchWords,
                                  weightConfigOf, One), minScoreOf)
          /\ result # k

\* C8 as stated: calculateEditDistanceOptimized never returns more than
\* maxDistance + 1 and returns exactly maxDistance + 1 whenever the true
\* distance exceeds maxDistance.
C8_Original ==
    editPc = "done" =>
        /\ editResult <= maxDistance + 1
        /\ editReference > maxDistance => editResult = maxDistance + 1

\* C8 amended: calculateEditDistanceOptimized returns either maxDistance + 1
\* or the true distance, and at least maxDistance + 1 whenever the true
\* distance exceeds maxDistance.
C8_EditDistanceBounded ==
    editPc = "done" =>
        /\ editResult \in {maxDistance + 1, editReference}
        /\ editReference > maxDistance => editResult >= maxDistance + 1

C8_Witness ==
    /\ editPc = "done"
    /\ editReference > maxDistance + 1
    /\ editResult = editReference

\* C10: calculateEditDistanceOptimized returns exactly the distance d that
\* calculateEditDistance returns when d <= maxDistance, and a value
\* > maxDistance when d > maxDistance.
C10_ThresholdExact ==
    editPc = "done" =>
        /\ editReference <= maxDistance => editResult = editReference
        /\ editReference > maxDistance => editResult > maxDistance
        /\ (editResult <= maxDistance) <=> (editReference <= maxDistance)

C10_Witness ==
    /\ editPc = "done"
    /\ Len(str1) # Len(str2)
    /\ editReference = maxDistance
    /\ editReference > Abs(Len(str1) - Len(str2))
    /\ editResult = editReference

\* C11: in smartFuzzySearch the cache is empty when the map starts; after any
\* prefix of the candidates every cache entry holds the character-set
\* similarity of the (normalized field value, normalized term) pair of every
\* candidate that produces its key, and different field values never share a
\* key; the scores and the returned item are the same with enableCache
\* flipped; with enableCache false the cache stays empty.
normalizedFieldValueOf(k) == normalize(list[k], OptCaseSensitive(options))

FlippedCache == [enableCache |-> ~OptEnableCache(options)] @@ options

C11_CacheTransparent ==
    (fn = "best" /\ pc \in {"map", "done"}) =>
        /\ Len(scoredItems) = 0 => cache = {}
        /\ ~OptEnableCache(options) => cache = {}
        /\ \A e \in cache, f \in cache : e[1] = f[1] => e = f
        /\ \A e \in cache : \A k \in 1..Len(list) :
              cacheKey(normalizedFieldValueOf(k), normalizedSearchTerm) = e[1] =>
                  e[2] = calculateCharSimilarityOptimized(
                             normalizedFieldValueOf(k), normalizedSearchTerm)
        /\ \A j \in 1..Len(list), k \in 1..Len(list) :
              cacheKey(normalizedFieldValueOf(j), normalizedSearchTerm)
                = cacheKey(normalizedFieldValueOf(k), normalizedSearchTerm)
                  => normalizedFieldValueOf(j) = normalizedFieldValueOf(k)
        /\ pc = "done" =>
              LET other == smartFuzzySearch(list, listIsArray, field, searchTerm,
                                            FlippedCache)
              IN  /\ other.scoredItems = scoredItems
                  /\ other.result = result

\* a second candidate was served from the cache
C11_Witness ==
    /\ BestDone /\ OptEnableCache(options)
    /\ Len(list) = 2
    /\ normalizedFieldValueOf(1) = normalizedFieldValueOf(2)
    /\ Cardinality(cache) = 1
    /\ QGt(scoredItems[2].details.charSimilarity, Zero)
    /\ QLt(scoredItems[2].details.charSimilarity, One)

\* C12: in smartFuzzySearch with the default weights, minScore <= 1,
\* maxEditDistance >= 0 and a normalized term of length >= 2, every candidate
\* whose normalized field value differs from the normalized term scores
\* strictly below 1; so when some item's normalized field value equals the
\* normalized term, the returned item is such an item.
DefaultPreconditions ==
    /\ BestDone
    /\ weightConfigOf = DEFAULT_WEIGHT_CONFIG
    /\ QLe(minScoreOf, One)
    /\ OptMaxEditDistance(options) >= 0
    /\ Len(normalizedSearchTerm) >= 2

C12_ExactOutranks ==
    DefaultPreconditions =>
        /\ \A k \in Candidates :
              normalizedFieldValueOf(k) # normalizedSearchTerm
                  => QLt(scoredItems[k].score, One)
        /\ (\E k \in 1..Len(list) :
                normalizedFieldValueOf(k) = normalizedSearchTerm)
              => /\ result # Null
                 /\ normalizedFieldValueOf(result) = normalizedSearchTerm

\* an exact item placed after a prefix match is the one returned
C12_Witness ==
    /\ DefaultPreconditions
    /\ minScoreOf = One
    /\ Len(list) = 2
    /\ normalizedFieldValueOf(1) # normalizedSearchTerm
    /\ normalizedFieldValueOf(2) = normalizedSearchTerm
    /\ QGe(scoredItems[1].score, Q(8, 10))
    /\ result = 2

\* C13: the edit-distance fallback of smartFuzzySearch never changes a score:
\* with non-negative weights, for a candidate with a non-empty normalized field
\* value that is not exact and passed the length pre-filter, the fallback
\* contribution is at most the ideographic-word-overlap contribution, the final
\* score is the working score, and the score is the same under any other
\* minScore and maxEditDistance that let the candidate pass the pre-filter.
NonNegativeWeights ==
    \A key \in DOMAIN weightConfigOf : QGe(weightConfigOf[key], Zero)

workingScoreOf(k) ==
    bestWorkingScore(normalizedFieldValueOf(k), normalizedSearchTerm, searchWords,
                     weightConfigOf,
                     calculateCharSimilarityOptimized(normalizedFieldValueOf(k),
                                                      normalizedSearchTerm))

ideographicContribution(k) ==
    QMul(QMul(calculateChineseWordMatch(normalizedFieldValueOf(k),
                                        normalizedSearchTerm),
              weightConfigOf.charSimilarity), Q(15, 10))

fallbackOf(k) ==
    editFallback(normalizedFieldValueOf(k), normalizedSearchTerm, weightConfigOf,
                 OptMaxEditDistance(options))

PassedPreFilter(k, maxEdit) ==
    ~bestLengthFilter(normalizedFieldValueOf(k), normalizedSearchTerm, maxEdit)

OtherThresholds ==
    {[minScore |-> m, maxEditDistance |-> e] @@ options :
        m \in {Zero, Q(2, 1)}, e \in {0, MaxPairLen}}

C13_FallbackNeverChangesScore ==
    (BestDone /\ NonNegativeWeights) =>
        \A k \in Candidates :
            /\ ( /\ Len(normalizedFieldValueOf(k)) > 0
                 /\ normalizedFieldValueOf(k) # normalizedSearchTerm
                 /\ PassedPreFilter(k, OptMaxEditDistance(options)) )
               => /\ QLe(fallbackOf(k).editScore, ideographicContribution(k))
                  /\ scoredItems[k].score = workingScoreOf(k)
            /\ PassedPreFilter(k, OptMaxEditDistance(options)) =>
                  \A o \in OtherThresholds :
                      PassedPreFilter(k, OptMaxEditDistance(o)) =>
                          scoreBestItem(list[k], normalizedSearchTerm, searchWords,
                                        o, {}).score = scoredItems[k].score

\* the fallback ran and found a positive edit similarity
C13_Witness ==
    /\ BestDone /\ NonNegativeWeights
    /\ \E k \in Candidates :
          /\ normalizedFieldValueOf(k) # normalizedSearchTerm
          /\ QLt(workingScoreOf(k), minScoreOf)
          /\ fallbackOf(k).computed
          /\ QGt(fallbackOf(k).editScore, Zero)
          /\ QGt(scoredItems[k].details.editSimilarity, Zero)
          /\ scoredItems[k].score = workingScoreOf(k)

\* C14: calculateLengthSimilarity returns 1 when both strings are empty, 0
\* when exactly one is empty, and min(len1, len2) / max(len1, len2) otherwise,
\* never dividing by zero.
C14_LengthSimilarity ==
    lengthPc = "done" =>
        /\ (Len(str1) = 0 /\ Len(str2) = 0) => lengthResult = One
        /\ (Len(str1) = 0) # (Len(str2) = 0) => lengthResult = Zero
        /\ (Len(str1) > 0 /\ Len(str2) > 0) =>
              /\ Max2(Len(str1), Len(str2)) > 0
              /\ lengthResult = Q(Min2(Len(str1), Len(str2)),
                                  Max2(Len(str1), Len(str2)))

\* what the code does: the ratio for two non-empty strings and 0 as soon as
\* either string is empty, both empty included
C14_LengthSimilarityAsCoded ==
    lengthPc = "done" =>
        /\ (Len(str1) = 0 \/ Len(str2) = 0) => lengthResult = Zero
        /\ (Len(str1) > 0 /\ Len(str2) > 0) =>
              lengthResult = Q(Min2(Len(str1), Len(str2)),
                               Max2(Len(str1), Len(str2)))

====
